---- MODULE Spec2Model ----
(***************************************************************************)
(* The bookstore server: the users, books, cart_items, orders, order_items *)
(* and reviews tables of the PostgreSQL store and the handlers that read   *)
(* and write them.  Every handler is a sequence of SQL statements; a statement is    *)
(* atomic, a handler is not.  createOrder runs its statements inside one   *)
(* db.transaction (PostgreSQL's default READ COMMITTED isolation): its     *)
(* writes are buffered in the transaction and become visible at COMMIT,    *)
(* a row it has written is locked until the transaction ends, and each of  *)
(* its statements reads what is committed when the statement runs.         *)
(*                                                                         *)
(* Money: a JavaScript number is represented by its value in thousandths   *)
(* (1.995 is 1995); a numeric(10,2) column value by its value in           *)
(* hundredths (2.00 is 200).                                               *)
(*                                                                         *)
(* Text: a text that is matched by a pattern is the sequence of its        *)
(* characters; a nullable column or input is {} when it is NULL and {v}    *)
(* when it holds v.                                                        *)
(*                                                                         *)
(* Time: created_at is now(), the time at which the inserting transaction  *)
(* began (for a statement outside a transaction, the time of the           *)
(* statement).  The times of a table are kept as ranks: only their order   *)
(* is read, by ORDER BY created_at.  updated_at is read by no handler and  *)
(* is not kept.                                                            *)
(***************************************************************************)
EXTENDS Integers, Sequences, FiniteSets, TLC

\* ----------------------------------------------------------------- bounds
NumProcs == 2
NumUsers == 2
MaxBooks == 2
ConcBooks == 1
MaxStock == 2
MaxQty == 2
MaxCartRows == 2
MaxOrders == 2
MaxReviews == 2
MaxUserSeq == 3
MaxStamp == 4

Procs == 1..NumProcs
UserIds == 1..NumUsers
StockInputs == 1..MaxStock
QtyInputs == 1..MaxQty
\* prices accepted by z.number().positive(), in thousandths
PriceInputs == {4, 1996}
\* ratings accepted by z.number().int().min(1).max(5)
RatingInputs == {1, 5}
\* comments accepted by z.string().nullable()
CommentInputs == {"null", "text"}

\* emails accepted by z.string().email()
EmailInputs == {"a@x.org", "b@x.org"}
\* passwords accepted by z.string().min(8)
PasswordInputs == {"password1", "password2"}
\* the salts Bun.password.hash may draw
Salts == {"salt1", "salt2"}
\* titles, categories and descriptions of the catalog requests
TitleInputs == {<<"A">>, <<"b">>}
CategoryInputs == {<<"F">>, <<"f">>}
DescriptionInputs == {{}, {<<"a">>}}
\* limit: z.number().int().positive().max(100).default(20)
DefaultLimit == 20
LimitInputs == 1..MaxBooks
\* offset: z.number().int().nonnegative().default(0)
OffsetInputs == {0, 1}

VARIABLES
    books,        \* booksTable: sequence indexed by the serial id
    cartItems,    \* cartItemsTable: set of rows
    cartSeq,      \* cart_items.id serial
    orders,       \* ordersTable: set of rows
    orderSeq,     \* orders.id serial
    orderItems,   \* orderItemsTable: set of rows; a row's serial id is kept as
                  \* its place (line) in its order
    reviews,      \* reviewsTable: set of rows
    reviewSeq,    \* reviews.id serial
    users,        \* usersTable: set of rows
    userSeq,      \* users.id serial
    pc,           \* per request slot: the statement the handler runs next
    local,        \* per request slot: the handler's local variables
    response      \* what the last step returned to a caller, if anything

vars == <<books, cartItems, cartSeq, orders, orderSeq, orderItems,
          reviews, reviewSeq, users, userSeq, pc, local, response>>

\* ------------------------------------------------------------ conversions
\* text of a non-negative JS number stored into a numeric(10,2) column:
\* PostgreSQL rounds to two decimals, half away from zero
ToNumeric(n) == (n + 5) \div 10

\* parseFloat of a numeric(10,2) column value
ParseFloat(c) == c * 10

\* ---------------------------------------------------------------- helpers
RECURSIVE SeqsOf(_)
SeqsOf(S) == IF S = {} THEN {<<>>}
             ELSE UNION {{<<x>> \o s : s \in SeqsOf(S \ {x})} : x \in S}

Range(s) == {s[i] : i \in 1..Len(s)}

BookExists(b) == b \in 1..Len(books)

NoResponse == [op |-> "none", outcome |-> "none"]
Idle == [op |-> "idle"]

\* slot p is between the BEGIN and the COMMIT or ROLLBACK of db.transaction
InTx(p) == pc[p] \in {"co_select_cart", "co_insert_order", "co_insert_items",
                      "co_update_stock", "co_clear_cart", "co_commit"}

\* a book row a transaction has updated is locked until the transaction ends
BookLockedBy(p, b) == InTx(p) /\ b \in DOMAIN local[p].txStock
BookLockedByOther(p, b) == \E q \in Procs \ {p} : BookLockedBy(q, b)

\* a cart row a transaction has deleted is locked until the transaction
\* ends: an UPDATE or DELETE of another request that hits it waits, a SELECT
\* still reads it, and an INSERT of another row waits for nothing
CartRowLockedBy(p, id) == InTx(p) /\ id \in local[p].txDeleted
CartRowLockedByOther(p, id) == \E q \in Procs \ {p} : CartRowLockedBy(q, id)

Finish(p, r) ==
    /\ pc' = [pc EXCEPT ![p] = "idle"]
    /\ local' = [local EXCEPT ![p] = Idle]
    /\ response' = r

Err(op, kind) == [op |-> op, outcome |-> kind]

Goto(p, label, l) ==
    /\ pc' = [pc EXCEPT ![p] = label]
    /\ local' = [local EXCEPT ![p] = l]
    /\ response' = NoResponse

Init ==
    /\ books = <<>>
    /\ cartItems = {}
    /\ cartSeq = 0
    /\ orders = {}
    /\ orderSeq = 0
    /\ orderItems = {}
    /\ reviews = {}
    /\ reviewSeq = 0
    /\ users = {}
    /\ userSeq = 0
    /\ pc = [p \in Procs |-> "idle"]
    /\ local = [p \in Procs |-> Idle]
    /\ response = NoResponse

\* ------------------------------------------------------------- createBook
\* NULL in a nullable column or input
Null == {}

\* the createBook input of the ordering requests: only price and stock vary
BookInput(price, stock) ==
    [title |-> <<"t">>, author |-> <<"w">>, isbn |-> Null, description |-> Null,
     price |-> price, stock_quantity |-> stock, category |-> <<"c">>,
     publication_year |-> Null, publisher |-> Null, cover_image_url |-> Null]

\* the row an INSERT of the input leaves: the price as numeric(10,2), and
\* created_at by its default; the rows of successive INSERT statements are
\* created in the order of their serial ids
InsertedBook(input) ==
    [column \in DOMAIN input \cup {"created_at"} |->
        IF column = "created_at" THEN Len(books) + 1
        ELSE IF column = "price" THEN ToNumeric(input.price)
        ELSE input[column]]

\* {...row, price: parseFloat(row.price)}, the row with its serial id
BookResult(id, row) ==
    [column \in DOMAIN row \cup {"id"} |->
        IF column = "id" THEN id
        ELSE IF column = "price" THEN ParseFloat(row.price)
        ELSE row[column]]

\* db.insert(booksTable).values({..., price: input.price.toString(), ...})
\* .returning()
CreateBook(p, input) ==
    /\ pc[p] = "idle"
    /\ Len(books) < MaxBooks
    /\ books' = Append(books, InsertedBook(input))
    /\ Finish(p, [op |-> "createBook", outcome |-> "ok",
                  row |-> {BookResult(Len(books) + 1, InsertedBook(input))}])
    /\ UNCHANGED <<cartItems, cartSeq, orders, orderSeq, orderItems, reviews, reviewSeq, users, userSeq>>

\* ------------------------------------------------------------- updateBook
\* a patch field is {} when the input leaves it undefined, {v} when it
\* supplies v
NoBookPatch ==
    [title |-> {}, author |-> {}, isbn |-> {}, description |-> {}, price |-> {},
     stock_quantity |-> {}, category |-> {}, publication_year |-> {},
     publisher |-> {}, cover_image_url |-> {}]

\* the patches of the ordering requests: price and stock only
BookPatches(prices) ==
    {[NoBookPatch EXCEPT !.price = price, !.stock_quantity = stock] :
        price \in {{}} \cup {{x} : x \in prices},
        stock \in {{}} \cup {{x} : x \in StockInputs}}

\* the row the UPDATE ... SET updateData leaves
PatchedBook(old, patch) ==
    [column \in DOMAIN old |->
        IF column \notin DOMAIN patch \/ patch[column] = {} THEN old[column]
        ELSE IF column = "price" THEN ToNumeric(CHOOSE v \in patch.price : TRUE)
        ELSE CHOOSE v \in patch[column] : TRUE]

\* first statement: SELECT the book by id
UpdateBook(p, id, patch) ==
    /\ pc[p] = "idle"
    /\ IF ~BookExists(id)
       THEN Finish(p, Err("updateBook", "NotFound"))
       ELSE Goto(p, "ub_update", [op |-> "updateBook", id |-> id, patch |-> patch])
    /\ UNCHANGED <<books, cartItems, cartSeq, orders, orderSeq, orderItems, reviews, reviewSeq, users, userSeq>>

\* the UPDATE as it would be if an order item's price were a live reference
\* to the book's price
UbUpdateLivePrice(p) ==
    /\ pc[p] = "ub_update"
    /\ ~(\E q \in Procs \ {p} : InTx(q) /\ local[p].id \in DOMAIN local[q].txStock)
    /\ books' = [books EXCEPT ![local[p].id] = PatchedBook(@, local[p].patch)]
    /\ orderItems' = {IF it.book_id = local[p].id
                      THEN [it EXCEPT !.price_at_time = books'[local[p].id].price]
                      ELSE it : it \in orderItems}
    /\ Finish(p, [op |-> "updateBook", outcome |-> "ok",
                  row |-> {BookResult(local[p].id, books'[local[p].id])}])
    /\ UNCHANGED <<cartItems, cartSeq, orders, orderSeq, reviews, reviewSeq, users, userSeq>>

\* second statement: UPDATE ... SET updateData WHERE id, .returning(); it
\* waits while a transaction holds the row, and patches the row as it is
\* then.  Books are never deleted, so it finds the row.
UbUpdate(p) ==
    /\ pc[p] = "ub_update"
    /\ ~BookLockedByOther(p, local[p].id)
    /\ books' = [books EXCEPT ![local[p].id] = PatchedBook(@, local[p].patch)]
    /\ Finish(p, [op |-> "updateBook", outcome |-> "ok",
                  row |-> {BookResult(local[p].id, books'[local[p].id])}])
    /\ UNCHANGED <<cartItems, cartSeq, orders, orderSeq, orderItems, reviews, reviewSeq, users, userSeq>>

\* -------------------------------------------------------------- addToCart
\* first statement: SELECT the book, then the stock check on the request
AddToCartCall(p, u, b, q) ==
    /\ pc[p] = "idle"
    /\ IF ~BookExists(b)
       THEN Finish(p, Err("addToCart", "NotFound"))
       ELSE IF books[b].stock_quantity < q
       THEN Finish(p, Err("addToCart", "InsufficientStock"))
       ELSE Goto(p, "atc_select_existing",
                 [op |-> "addToCart", user |-> u, book_id |-> b, quantity |-> q,
                  book_stock |-> books[b].stock_quantity])
    /\ UNCHANGED <<books, cartItems, cartSeq, orders, orderSeq, orderItems, reviews, reviewSeq, users, userSeq>>

\* addToCart as it would be if it replaced the quantity of the row it finds
AtcSelectExistingReplace(p) ==
    /\ pc[p] = "atc_select_existing"
    /\ LET l == local[p]
           existingItems == {c \in cartItems :
                               c.user_id = l.user /\ c.book_id = l.book_id}
       IN IF existingItems # {}
          THEN \E existingItem \in existingItems :
                 Goto(p, "atc_update",
                      [op |-> "addToCart", user |-> l.user, book_id |-> l.book_id,
                       quantity |-> l.quantity, id |-> existingItem.id,
                       newQuantity |-> l.quantity])
          ELSE Goto(p, "atc_insert",
                    [op |-> "addToCart", user |-> l.user, book_id |-> l.book_id,
                     quantity |-> l.quantity])
    /\ UNCHANGED <<books, cartItems, cartSeq, orders, orderSeq, orderItems, reviews, reviewSeq, users, userSeq>>

\* second statement: SELECT the caller's rows for the book; existingItems[0]
\* is any of them
AtcSelectExisting(p) ==
    /\ pc[p] = "atc_select_existing"
    /\ LET l == local[p]
           existingItems == {c \in cartItems :
                               c.user_id = l.user /\ c.book_id = l.book_id}
       IN IF existingItems # {}
          THEN \E existingItem \in existingItems :
                 LET newQuantity == existingItem.quantity + l.quantity
                 IN IF newQuantity > l.book_stock
                    THEN Finish(p, Err("addToCart", "InsufficientStock"))
                    ELSE Goto(p, "atc_update",
                              [op |-> "addToCart", user |-> l.user,
                               book_id |-> l.book_id,
                               quantity |-> l.quantity,
                               id |-> existingItem.id,
                               newQuantity |-> newQuantity])
          ELSE Goto(p, "atc_insert",
                    [op |-> "addToCart", user |-> l.user, book_id |-> l.book_id,
                     quantity |-> l.quantity])
    /\ UNCHANGED <<books, cartItems, cartSeq, orders, orderSeq, orderItems, reviews, reviewSeq, users, userSeq>>

\* UPDATE cart_items SET quantity = v WHERE id = id: the rows left
SetCartQuantity(id, v) ==
    {IF c.id = id THEN [c EXCEPT !.quantity = v] ELSE c : c \in cartItems}

\* what .returning() gives for an UPDATE by id: the row, or nothing
Returned(op, id, rows) ==
    [op |-> op, outcome |-> "ok", row |-> {c \in rows : c.id = id}]

\* third statement, merge branch; the UPDATE waits for a row a transaction
\* holds and then finds it or does not
AtcUpdate(p) ==
    /\ pc[p] = "atc_update"
    /\ ~CartRowLockedByOther(p, local[p].id)
    /\ cartItems' = SetCartQuantity(local[p].id, local[p].newQuantity)
    /\ Finish(p, Returned("addToCart", local[p].id, cartItems'))
    /\ UNCHANGED <<books, cartSeq, orders, orderSeq, orderItems, reviews, reviewSeq, users, userSeq>>

\* third statement, insert branch
AtcInsert(p) ==
    /\ pc[p] = "atc_insert"
    /\ cartSeq < MaxCartRows
    /\ cartSeq' = cartSeq + 1
    /\ cartItems' = cartItems \cup
                      {[id |-> cartSeq + 1, user_id |-> local[p].user,
                        book_id |-> local[p].book_id,
                        quantity |-> local[p].quantity]}
    /\ Finish(p, Returned("addToCart", cartSeq + 1, cartItems'))
    /\ UNCHANGED <<books, orders, orderSeq, orderItems, reviews, reviewSeq, users, userSeq>>

\* --------------------------------------------------------- updateCartItem
UciCall(p, u, id, q) ==
    /\ pc[p] = "idle"
    /\ LET existingCartItems == {c \in cartItems : c.id = id /\ c.user_id = u}
       IN IF existingCartItems = {}
          THEN Finish(p, Err("updateCartItem", "NotFound"))
          ELSE \E existingItem \in existingCartItems :
                 Goto(p, "uci_select_book",
                      [op |-> "updateCartItem", user |-> u, cart_item_id |-> id,
                       quantity |-> q, book_id |-> existingItem.book_id])
    /\ UNCHANGED <<books, cartItems, cartSeq, orders, orderSeq, orderItems, reviews, reviewSeq, users, userSeq>>

UciSelectBook(p) ==
    /\ pc[p] = "uci_select_book"
    /\ LET l == local[p]
       IN IF ~BookExists(l.book_id)
          THEN Finish(p, Err("updateCartItem", "NotFound"))
          ELSE IF books[l.book_id].stock_quantity < l.quantity
          THEN Finish(p, Err("updateCartItem", "InsufficientStock"))
          ELSE Goto(p, "uci_update", l)
    /\ UNCHANGED <<books, cartItems, cartSeq, orders, orderSeq, orderItems, reviews, reviewSeq, users, userSeq>>

\* updateCartItem as it would be if it added the quantity to the row's
UciUpdateAdds(p) ==
    /\ pc[p] = "uci_update"
    /\ ~CartRowLockedByOther(p, local[p].cart_item_id)
    /\ cartItems' = {IF c.id = local[p].cart_item_id
                     THEN [c EXCEPT !.quantity = @ + local[p].quantity]
                     ELSE c : c \in cartItems}
    /\ Finish(p, Returned("updateCartItem", local[p].cart_item_id, cartItems'))
    /\ UNCHANGED <<books, cartSeq, orders, orderSeq, orderItems, reviews, reviewSeq, users, userSeq>>

UciUpdate(p) ==
    /\ pc[p] = "uci_update"
    /\ ~CartRowLockedByOther(p, local[p].cart_item_id)
    /\ cartItems' = SetCartQuantity(local[p].cart_item_id, local[p].quantity)
    /\ Finish(p, Returned("updateCartItem", local[p].cart_item_id, cartItems'))
    /\ UNCHANGED <<books, cartSeq, orders, orderSeq, orderItems, reviews, reviewSeq, users, userSeq>>

\* --------------------------------------------------------- removeFromCart
\* removeFromCart as it would be if it reported (rowCount ?? 0) >= 0
RemoveFromCartAlwaysTrue(p, u, id) ==
    /\ pc[p] = "idle"
    /\ LET hit == {c \in cartItems : c.id = id /\ c.user_id = u}
       IN /\ \A c \in hit : ~CartRowLockedByOther(p, c.id)
          /\ cartItems' = cartItems \ hit
          /\ Finish(p, [op |-> "removeFromCart", outcome |-> "ok",
                        value |-> (Cardinality(hit) >= 0)])
    /\ UNCHANGED <<books, cartSeq, orders, orderSeq, orderItems, reviews, reviewSeq, users, userSeq>>

RemoveFromCart(p, u, id) ==
    /\ pc[p] = "idle"
    /\ LET hit == {c \in cartItems : c.id = id /\ c.user_id = u}
       IN /\ \A c \in hit : ~CartRowLockedByOther(p, c.id)
          /\ cartItems' = cartItems \ hit
          /\ Finish(p, [op |-> "removeFromCart", outcome |-> "ok",
                        value |-> (Cardinality(hit) > 0)])
    /\ UNCHANGED <<books, cartSeq, orders, orderSeq, orderItems, reviews, reviewSeq, users, userSeq>>

\* ------------------------------------------------------------ createOrder
EmptyFn == [b \in {} |-> 0]

\* the cart SELECT without its where clause
CartJoinAllUsers(u) ==
    {[cart_item_id |-> c.id, book_id |-> c.book_id, quantity |-> c.quantity,
      book_price |-> books[c.book_id].price,
      book_stock |-> books[c.book_id].stock_quantity] :
       c \in {d \in cartItems : BookExists(d.book_id)}}

\* tx.select(...).from(cartItemsTable).innerJoin(booksTable, ...).where(user_id = u)
CartJoinBooks(u) ==
    {[cart_item_id |-> c.id, book_id |-> c.book_id, quantity |-> c.quantity,
      book_price |-> books[c.book_id].price,
      book_stock |-> books[c.book_id].stock_quantity] :
       c \in {d \in cartItems : d.user_id = u /\ BookExists(d.book_id)}}

\* the stock check off by one
InsufficientStockOffByOne(rows) ==
    {item \in Range(rows) : item.quantity > item.book_stock + 1}

\* cartItemsWithBooks.filter(item => item.quantity > item.book_stock)
InsufficientStock(rows) == {item \in Range(rows) : item.quantity > item.book_stock}

\* cartItemsWithBooks.reduce((sum, item) => sum + parseFloat(price) * quantity, 0)
RECURSIVE Reduce(_, _, _)
Reduce(rows, i, sum) ==
    IF i > Len(rows) THEN sum
    ELSE Reduce(rows, i + 1, sum + ParseFloat(rows[i].book_price) * rows[i].quantity)

\* the total as the sum of the prices, the quantities forgotten
RECURSIVE SumOfPrices(_, _)
SumOfPrices(rows, i) ==
    IF i > Len(rows) THEN 0 ELSE ParseFloat(rows[i].book_price) + SumOfPrices(rows, i + 1)

TotalAmountUnitQuantity(rows) == SumOfPrices(rows, 1)

TotalAmount(rows) == Reduce(rows, 1, 0)

\* now() at a BEGIN, as a rank: later than the BEGIN of every transaction
\* whose order is in the table or may still come to be there
Now ==
    LET stamps == {o.created_at : o \in orders}
                    \cup {local[q].created_at : q \in {r \in Procs : InTx(r)}}
    IN IF stamps = {} THEN 1
       ELSE 1 + CHOOSE t \in stamps : \A x \in stamps : x <= t

\* db.transaction(async (tx) => ...): BEGIN
CreateOrderCall(p, u) ==
    /\ pc[p] = "idle"
    /\ Now <= MaxStamp
    /\ Goto(p, "co_select_cart",
            [op |-> "createOrder", user |-> u, created_at |-> Now,
             snapshot |-> <<>>, idx |-> 1,
             txOrder |-> {}, txItems |-> {}, txStock |-> EmptyFn, txDeleted |-> {}])
    /\ UNCHANGED <<books, cartItems, cartSeq, orders, orderSeq, orderItems, reviews, reviewSeq, users, userSeq>>

\* the cart SELECT (rows come in no particular order) and the two checks on
\* its result; a throw here rolls back a transaction without writes
CoSelectCart(p) ==
    /\ pc[p] = "co_select_cart"
    /\ \E cartItemsWithBooks \in SeqsOf(CartJoinBooks(local[p].user)) :
         IF Len(cartItemsWithBooks) = 0
         THEN Finish(p, Err("createOrder", "EmptyCart"))
         ELSE IF InsufficientStock(cartItemsWithBooks) # {}
         THEN Finish(p, Err("createOrder", "InsufficientStock"))
         ELSE Goto(p, "co_insert_order",
                   [local[p] EXCEPT !.snapshot = cartItemsWithBooks])
    /\ UNCHANGED <<books, cartItems, cartSeq, orders, orderSeq, orderItems, reviews, reviewSeq, users, userSeq>>

\* tx.insert(ordersTable).values({...}).returning(); created_at defaults to
\* now(), the time of the transaction's BEGIN
OrderRecord(id, u, rows, now) ==
    [id |-> id, user_id |-> u, total_amount |-> ToNumeric(TotalAmount(rows)),
     status |-> "pending", created_at |-> now]

CoInsertOrder(p) ==
    /\ pc[p] = "co_insert_order"
    /\ orderSeq < MaxOrders
    /\ orderSeq' = orderSeq + 1
    /\ Goto(p, "co_insert_items",
            [local[p] EXCEPT !.txOrder =
                {OrderRecord(orderSeq + 1, local[p].user, local[p].snapshot,
                             local[p].created_at)}])
    /\ UNCHANGED <<books, cartItems, cartSeq, orders, orderItems, reviews, reviewSeq, users, userSeq>>

\* the order items without the last cart row
OrderItemsDataDropLast(order_id, rows) ==
    {[line |-> i, order_id |-> order_id,
      book_id |-> rows[i].book_id, quantity |-> rows[i].quantity,
      price_at_time |-> rows[i].book_price] : i \in 1..(Len(rows) - 1)}

\* cartItemsWithBooks.map(item => ({order_id, book_id, quantity, price_at_time}))
OrderItemsData(order_id, rows) ==
    {[line |-> i, order_id |-> order_id,
      book_id |-> rows[i].book_id, quantity |-> rows[i].quantity,
      price_at_time |-> rows[i].book_price] : i \in 1..Len(rows)}

CoInsertItems(p) ==
    /\ pc[p] = "co_insert_items"
    /\ LET orderRecord == CHOOSE o \in local[p].txOrder : TRUE
       IN Goto(p, "co_update_stock",
               [local[p] EXCEPT !.txItems =
                   OrderItemsData(orderRecord.id, local[p].snapshot)])
    /\ UNCHANGED <<books, cartItems, cartSeq, orders, orderSeq, orderItems, reviews, reviewSeq, users, userSeq>>

\* const newStock = item.book_stock - item.quantity
NewStock(item) == item.book_stock - item.quantity

AfterStockStep(p) ==
    IF local[p].idx = Len(local[p].snapshot) THEN "co_clear_cart" ELSE "co_update_stock"

\* the stock UPDATE issued on db instead of tx: committed at once
DbUpdateStock(p, item) ==
    /\ Goto(p, IF local[p].idx = Len(local[p].snapshot)
               THEN "co_clear_cart" ELSE "co_update_stock",
            [local[p] EXCEPT !.idx = @ + 1])
    /\ books' = [books EXCEPT ![item.book_id].stock_quantity =
                                 item.book_stock - item.quantity]

\* tx.update(booksTable).set({stock_quantity: newStock}).where(id = book_id):
\* a write of the transaction
TxUpdateStock(p, item) ==
    /\ Goto(p, AfterStockStep(p),
            [local[p] EXCEPT
               !.idx = @ + 1,
               !.txStock = [b \in DOMAIN @ \cup {item.book_id} |->
                              IF b = item.book_id THEN NewStock(item) ELSE @[b]]])
    /\ UNCHANGED books

\* one turn of the for loop; the UPDATE waits for a row another transaction holds
CoUpdateStock(p) ==
    /\ pc[p] = "co_update_stock"
    /\ LET item == local[p].snapshot[local[p].idx]
       IN /\ ~BookLockedByOther(p, item.book_id)
          /\ TxUpdateStock(p, item)
    /\ UNCHANGED <<cartItems, cartSeq, orders, orderSeq, orderItems, reviews, reviewSeq, users, userSeq>>

\* the books once the transaction's stock writes are committed
CommittedBooks(p) ==
    [b \in 1..Len(books) |->
        IF b \in DOMAIN local[p].txStock
        THEN [books[b] EXCEPT !.stock_quantity = local[p].txStock[b]]
        ELSE books[b]]

\* the cart DELETE without its where clause
ClearedCartAllUsers(u) == cartItems

\* tx.delete(cartItemsTable).where(user_id = u): the rows it removes
ClearedCart(u) == {c \in cartItems : c.user_id = u}

\* the DELETE, a write of the transaction: it removes the caller's rows
\* there are when it runs, and waits for a row another transaction holds
CoClearCart(p) ==
    /\ pc[p] = "co_clear_cart"
    /\ \A c \in ClearedCart(local[p].user) : ~CartRowLockedByOther(p, c.id)
    /\ Goto(p, "co_commit",
            [local[p] EXCEPT !.txDeleted = {c.id : c \in ClearedCart(local[p].user)}])
    /\ UNCHANGED <<books, cartItems, cartSeq, orders, orderSeq, orderItems, reviews, reviewSeq, users, userSeq>>

\* the cart once the transaction's DELETE is committed: a row inserted
\* since the DELETE stays
CommittedCart(p) == {c \in cartItems : c.id \notin local[p].txDeleted}

\* COMMIT, then
\* return {...result, total_amount: parseFloat(result.total_amount)}
CoCommit(p) ==
    /\ pc[p] = "co_commit"
    /\ books' = CommittedBooks(p)
    /\ cartItems' = CommittedCart(p)
    /\ orders' = orders \cup local[p].txOrder
    /\ orderItems' = orderItems \cup local[p].txItems
    /\ LET result == CHOOSE o \in local[p].txOrder : TRUE
       IN Finish(p, [op |-> "createOrder", outcome |-> "ok",
                     order |-> [result EXCEPT !.total_amount = ParseFloat(@)]])
    /\ UNCHANGED <<cartSeq, orderSeq, reviews, reviewSeq, users, userSeq>>

\* a rollback that keeps the order row, as if it had been inserted on db
RolledBackKeepsOrder(p) == <<books, cartItems, orders \cup local[p].txOrder, orderItems>>

\* the tables once the transaction is rolled back
RolledBack(p) == <<books, cartItems, orders, orderItems>>

\* a statement of the transaction fails in the store: ROLLBACK, and the
\* error is thrown to the caller
CoFail(p) ==
    /\ InTx(p)
    /\ books' = RolledBack(p)[1]
    /\ cartItems' = RolledBack(p)[2]
    /\ orders' = RolledBack(p)[3]
    /\ orderItems' = RolledBack(p)[4]
    /\ Finish(p, [op |-> "createOrder", outcome |-> "PersistenceFailure",
                  at |-> pc[p], stockUpdates |-> local[p].idx - 1])
    /\ UNCHANGED <<cartSeq, orderSeq, reviews, reviewSeq, users, userSeq>>

\* ----------------------------------------------------------- createReview
\* first statement: SELECT the book
CreateReviewCall(p, u, b, rating, comment) ==
    /\ pc[p] = "idle"
    /\ IF ~BookExists(b)
       THEN Finish(p, Err("createReview", "NotFound"))
       ELSE Goto(p, "cr_select_purchase",
                 [op |-> "createReview", user |-> u, book_id |-> b,
                  rating |-> rating, comment |-> comment])
    /\ UNCHANGED <<books, cartItems, cartSeq, orders, orderSeq, orderItems, reviews, reviewSeq, users, userSeq>>

\* the purchase check without the user_id condition
UserPurchaseAnyUser(u, b) ==
    {<<it, o>> \in orderItems \X orders : it.order_id = o.id /\ it.book_id = b}

\* db.select().from(orderItemsTable).innerJoin(ordersTable, ...).where(user_id, book_id)
UserPurchase(u, b) ==
    {<<it, o>> \in orderItems \X orders :
        it.order_id = o.id /\ o.user_id = u /\ it.book_id = b}

\* second statement: the purchase check
CrSelectPurchase(p) ==
    /\ pc[p] = "cr_select_purchase"
    /\ IF UserPurchase(local[p].user, local[p].book_id) = {}
       THEN Finish(p, Err("createReview", "Forbidden"))
       ELSE Goto(p, "cr_select_existing", local[p])
    /\ UNCHANGED <<books, cartItems, cartSeq, orders, orderSeq, orderItems, reviews, reviewSeq, users, userSeq>>

\* db.select().from(reviewsTable).where(user_id, book_id)
ExistingReview(u, b) == {r \in reviews : r.user_id = u /\ r.book_id = b}

\* third statement: the duplicate check
CrSelectExisting(p) ==
    /\ pc[p] = "cr_select_existing"
    /\ IF ExistingReview(local[p].user, local[p].book_id) # {}
       THEN Finish(p, Err("createReview", "Conflict"))
       ELSE Goto(p, "cr_insert", local[p])
    /\ UNCHANGED <<books, cartItems, cartSeq, orders, orderSeq, orderItems, reviews, reviewSeq, users, userSeq>>

\* fourth statement: db.insert(reviewsTable).values({...}).returning()
CrInsert(p) ==
    /\ pc[p] = "cr_insert"
    /\ reviewSeq < MaxReviews
    /\ reviewSeq' = reviewSeq + 1
    /\ LET row == [id |-> reviewSeq + 1, user_id |-> local[p].user,
                   book_id |-> local[p].book_id, rating |-> local[p].rating,
                   comment |-> local[p].comment]
       IN /\ reviews' = reviews \cup {row}
          /\ Finish(p, [op |-> "createReview", outcome |-> "ok", row |-> {row}])
    /\ UNCHANGED <<books, cartItems, cartSeq, orders, orderSeq, orderItems, users, userSeq>>

\* ----------------------------------------------------------- updateReview
\* a patch field is {} when the input leaves it undefined, {v} when it
\* supplies v
ReviewPatches == [rating : {{}} \cup {{x} : x \in RatingInputs},
                  comment : {{}} \cup {{x} : x \in CommentInputs}]

\* the row the UPDATE ... SET updateData leaves
PatchedReview(old, patch) ==
    [old EXCEPT !.rating = IF patch.rating = {} THEN @
                           ELSE CHOOSE v \in patch.rating : TRUE,
                !.comment = IF patch.comment = {} THEN @
                            ELSE CHOOSE v \in patch.comment : TRUE]

\* the review SELECT, UPDATE and DELETE without the user_id condition
ReviewsOfAnyUser(u, id) == {r \in reviews : r.id = id}

\* db.select().from(reviewsTable).where(id, user_id)
OwnReviews(u, id) == {r \in reviews : r.id = id /\ r.user_id = u}

\* first statement: SELECT the caller's review
UpdateReviewCall(p, u, id, patch) ==
    /\ pc[p] = "idle"
    /\ IF OwnReviews(u, id) = {}
       THEN Finish(p, Err("updateReview", "NotFound"))
       ELSE Goto(p, "ur_update",
                 [op |-> "updateReview", user |-> u, review_id |-> id,
                  patch |-> patch])
    /\ UNCHANGED <<books, cartItems, cartSeq, orders, orderSeq, orderItems, reviews, reviewSeq, users, userSeq>>

\* second statement: UPDATE ... WHERE id AND user_id, .returning()
UrUpdate(p) ==
    /\ pc[p] = "ur_update"
    /\ LET l == local[p]
           hit == OwnReviews(l.user, l.review_id)
           result == {PatchedReview(r, l.patch) : r \in hit}
       IN /\ reviews' = (reviews \ hit) \cup result
          /\ IF result = {}
             THEN Finish(p, Err("updateReview", "UpdateFailed"))
             ELSE Finish(p, [op |-> "updateReview", outcome |-> "ok", row |-> result])
    /\ UNCHANGED <<books, cartItems, cartSeq, orders, orderSeq, orderItems, reviewSeq, users, userSeq>>

\* ----------------------------------------------------------- deleteReview
DeleteReview(p, u, id) ==
    /\ pc[p] = "idle"
    /\ LET result == OwnReviews(u, id)
       IN /\ reviews' = reviews \ result
          /\ Finish(p, [op |-> "deleteReview", outcome |-> "ok",
                        value |-> (Cardinality(result) > 0)])
    /\ UNCHANGED <<books, cartItems, cartSeq, orders, orderSeq, orderItems, reviewSeq, users, userSeq>>

\* ------------------------------------------------------------- createUser
\* Bun.password.hash(password): the encoded hash "$argon2id$...$salt$digest",
\* kept as its parts; the digest is determined by the salt and the password
\* it is computed from
HashPassword(password, salt) ==
    [scheme |-> "$argon2id$", salt |-> salt, password |-> password]

\* first statement: SELECT the users with the email
CreateUserCall(p, email, password) ==
    /\ pc[p] = "idle"
    /\ IF \E u \in users : u.email = email
       THEN Finish(p, Err("createUser", "Conflict"))
       ELSE Goto(p, "cu_insert",
                 [op |-> "createUser", email |-> email, password |-> password])
    /\ UNCHANGED <<books, cartItems, cartSeq, orders, orderSeq, orderItems, reviews, reviewSeq, users, userSeq>>

\* a users table without the unique index on email
EmailNotUnique(email) == FALSE

\* email: text('email').notNull().unique(): the INSERT of a second row with
\* the email fails
EmailTaken(email) == \E u \in users : u.email = email

\* hashPassword, then db.insert(usersTable).values({...}).returning(); the
\* serial is drawn before the unique index is checked
CuInsert(p) ==
    /\ pc[p] = "cu_insert"
    /\ userSeq < MaxUserSeq
    /\ userSeq' = userSeq + 1
    /\ \E salt \in Salts :
         LET row == [id |-> userSeq + 1, email |-> local[p].email,
                     password_hash |-> HashPassword(local[p].password, salt)]
         IN IF EmailTaken(row.email)
            THEN /\ users' = users
                 /\ Finish(p, Err("createUser", "UniqueViolation"))
            ELSE /\ users' = users \cup {row}
                 /\ Finish(p, [op |-> "createUser", outcome |-> "ok", row |-> {row}])
    /\ UNCHANGED <<books, cartItems, cartSeq, orders, orderSeq, orderItems, reviews, reviewSeq>>

\* -------------------------------------------------------------- loginUser
\* `hash_${plainPassword}`, kept as its parts
HashTemplate(plainPassword) ==
    [scheme |-> "hash_", salt |-> "", password |-> plainPassword]

\* return hashedPassword === `hash_${plainPassword}`
VerifyPassword(plainPassword, hashedPassword) ==
    hashedPassword = HashTemplate(plainPassword)

\* a login that tells the caller that no user has the email
UnknownEmailNamed ==
    [op |-> "loginUser", outcome |-> "Error", message |-> "No user with this email"]

\* if (users.length === 0) throw new Error('Invalid email or password')
UnknownEmail ==
    [op |-> "loginUser", outcome |-> "Error", message |-> "Invalid email or password"]

\* if (!isPasswordValid) throw new Error('Invalid email or password')
WrongPassword ==
    [op |-> "loginUser", outcome |-> "Error", message |-> "Invalid email or password"]

\* SELECT the users with the email, then the password check on the first
LoginUser(p, email, password) ==
    /\ pc[p] = "idle"
    /\ LET found == {u \in users : u.email = email}
       IN IF found = {}
          THEN Finish(p, UnknownEmail)
          ELSE \E user \in found :
                 IF ~VerifyPassword(password, user.password_hash)
                 THEN Finish(p, WrongPassword)
                 ELSE Finish(p, [op |-> "loginUser", outcome |-> "ok", row |-> {user}])
    /\ UNCHANGED <<books, cartItems, cartSeq, orders, orderSeq, orderItems, reviews, reviewSeq, users, userSeq>>

\* ------------------------------------------------- getOrders, getOrderById
\* ORDER BY created_at DESC: the lists of the rows of S the store may
\* return, rows of equal created_at in either order
NewestFirst(S) ==
    {rows \in SeqsOf(S) :
        \A i \in 1..(Len(rows) - 1) : rows[i].created_at >= rows[i + 1].created_at}

\* {...order, total_amount: parseFloat(order.total_amount)}
ReturnedOrder(order) == [order EXCEPT !.total_amount = ParseFloat(@)]

\* db.select(...).from(ordersTable).leftJoin(...).where(eq(ordersTable.user_id, userId))
OrdersOf(u) == {o \in orders : o.user_id = u}

\* the rows ordered by created_at descending, grouped by order id in a Map,
\* and the Map's values returned without their items
GetOrders(p, u) ==
    /\ pc[p] = "idle"
    /\ \E value \in NewestFirst({ReturnedOrder(o) : o \in OrdersOf(u)}) :
         Finish(p, [op |-> "getOrders", outcome |-> "ok", value |-> value])
    /\ UNCHANGED <<books, cartItems, cartSeq, orders, orderSeq, orderItems, reviews, reviewSeq, users, userSeq>>

\* the order SELECT without the user_id condition
OrderByIdOfAnyUser(u, id) == {o \in orders : o.id = id}

\* db.select().from(ordersTable).where(and(eq(id, orderId), eq(user_id, userId)))
OrderById(u, id) == {o \in orders : o.id = id /\ o.user_id = u}

\* null when no row is found, else the first row
GetOrderById(p, u, id) ==
    /\ pc[p] = "idle"
    /\ LET results == OrderById(u, id)
       IN IF results = {}
          THEN Finish(p, [op |-> "getOrderById", outcome |-> "ok", value |-> Null])
          ELSE \E order \in results :
                 Finish(p, [op |-> "getOrderById", outcome |-> "ok",
                            value |-> {ReturnedOrder(order)}])
    /\ UNCHANGED <<books, cartItems, cartSeq, orders, orderSeq, orderItems, reviews, reviewSeq, users, userSeq>>

\* ---------------------------------------------------- getBooks, searchBooks
\* lower(c): an upper-case letter becomes its lower-case form
UpperToLower ==
    [A |-> "a", B |-> "b", C |-> "c", D |-> "d", E |-> "e", F |-> "f", G |-> "g",
     H |-> "h", I |-> "i", J |-> "j", K |-> "k", L |-> "l", M |-> "m", N |-> "n",
     O |-> "o", P |-> "p", Q |-> "q", R |-> "r", S |-> "s", T |-> "t", U |-> "u",
     V |-> "v", W |-> "w", X |-> "x", Y |-> "y", Z |-> "z"]

LowerChar(c) == IF c \in DOMAIN UpperToLower THEN UpperToLower[c] ELSE c

LowerText(text) == [i \in 1..Len(text) |-> LowerChar(text[i])]

\* text LIKE pattern, as PostgreSQL matches it: % matches any run of
\* characters, _ any one character, and a backslash makes the character
\* after it stand for itself.  The outcome is "true", "false", "abort" (no
\* match, and none at any later place of the text either) or "error": the
\* store raises "LIKE pattern must not end with escape character" when the
\* matching comes to a backslash that ends the pattern.
RECURSIVE MatchText(_, _), MatchAfterPercent(_, _), MatchFrom(_, _)
MatchText(t, p) ==
    IF p = <<"%">> THEN "true"
    ELSE IF t # <<>> /\ p # <<>>
    THEN IF Head(p) = "\\"
         THEN IF Len(p) = 1 THEN "error"
              ELSE IF p[2] # Head(t) THEN "false"
              ELSE MatchText(Tail(t), Tail(Tail(p)))
         ELSE IF Head(p) = "%" THEN MatchAfterPercent(t, Tail(p))
         ELSE IF Head(p) = "_" THEN MatchText(Tail(t), Tail(p))
         ELSE IF Head(p) # Head(t) THEN "false"
         ELSE MatchText(Tail(t), Tail(p))
    ELSE IF t # <<>> THEN "false"
    ELSE IF \A i \in 1..Len(p) : p[i] = "%" THEN "true"
    ELSE "abort"

\* after a %: the % and _ that follow it are skipped, each _ taking one
\* character of the text, and the rest of the pattern is matched at every
\* place of the text that starts with its first character
MatchAfterPercent(t, p) ==
    IF p = <<>> THEN "true"
    ELSE IF Head(p) = "%" THEN MatchAfterPercent(t, Tail(p))
    ELSE IF Head(p) = "_"
    THEN IF t = <<>> THEN "abort" ELSE MatchAfterPercent(Tail(t), Tail(p))
    ELSE IF Head(p) = "\\" /\ Len(p) < 2 THEN "error"
    ELSE MatchFrom(t, p)

MatchFrom(t, p) ==
    IF t = <<>> THEN "abort"
    ELSE LET firstpat == IF Head(p) = "\\" THEN p[2] ELSE Head(p)
             matched == MatchText(t, p)
         IN IF Head(t) = firstpat /\ matched # "false" THEN matched
            ELSE MatchFrom(Tail(t), p)

Like(text, pattern) == MatchText(text, pattern) = "true"

LikeRaises(text, pattern) == MatchText(text, pattern) = "error"

\* ilike(column, pattern): both sides lowered, then matched
ILike(text, pattern) == Like(LowerText(text), LowerText(pattern))

ILikeRaises(text, pattern) == LikeRaises(LowerText(text), LowerText(pattern))

\* `%${term}%`; a pattern that ends with % never raises
Containing(term) == <<"%">> \o term \o <<"%">>

\* if (input.query): undefined and the empty string add no condition
Truthy(field) == field # {} /\ field # {<<>>}

ValueOf(field) == CHOOSE v \in field : TRUE

\* or(ilike(title, term), ilike(author, term), ilike(description, term));
\* a NULL description matches nothing
TextSearch(book, query) ==
    \/ ILike(book.title, Containing(query))
    \/ ILike(book.author, Containing(query))
    \/ \E description \in book.description : ILike(description, Containing(query))

\* gte(price, min_price.toString()) and lte(price, max_price.toString()):
\* the numeric(10,2) column against the number as written
PriceInRange(book, input) ==
    /\ input.min_price # {} => book.price * 10 >= ValueOf(input.min_price)
    /\ input.max_price # {} => book.price * 10 <= ValueOf(input.max_price)

\* getBooks: and(...conditions), the category compared by eq
GetBooksWhere(book, input) ==
    /\ Truthy(input.query) => TextSearch(book, ValueOf(input.query))
    /\ Truthy(input.category) => book.category = ValueOf(input.category)
    /\ Truthy(input.author) => ILike(book.author, Containing(ValueOf(input.author)))
    /\ PriceInRange(book, input)

\* a search that joins its conditions by or
SearchBooksWhereAny(book, input) ==
    \/ Truthy(input.query) /\ TextSearch(book, ValueOf(input.query))
    \/ Truthy(input.category) /\ ILike(book.category, ValueOf(input.category))
    \/ Truthy(input.author) /\ ILike(book.author, Containing(ValueOf(input.author)))
    \/ input.min_price # {} /\ book.price * 10 >= ValueOf(input.min_price)
    \/ input.max_price # {} /\ book.price * 10 <= ValueOf(input.max_price)

\* searchBooks: and(...conditions), the category compared by ilike
SearchBooksWhere(book, input) ==
    /\ Truthy(input.query) => TextSearch(book, ValueOf(input.query))
    /\ Truthy(input.category) => ILike(book.category, ValueOf(input.category))
    /\ Truthy(input.author) => ILike(book.author, Containing(ValueOf(input.author)))
    /\ PriceInRange(book, input)

\* the searchBooks query fails: the category, the one pattern passed as it
\* is written, raises on the category of a book.  Of the conditions of the
\* where clause the store evaluates this one first, on every row.
SearchBooksRaises(input) ==
    /\ Truthy(input.category)
    /\ \E b \in 1..Len(books) : ILikeRaises(books[b].category, ValueOf(input.category))

\* {...book, price: parseFloat(book.price)}
ReturnedBook(b) == BookResult(b, books[b])

\* .limit(limit).offset(offset)
Page(rows, limit, offset) ==
    [i \in 1..(IF Len(rows) - offset < 0 THEN 0
               ELSE IF Len(rows) - offset < limit THEN Len(rows) - offset
               ELSE limit) |-> rows[offset + i]]

\* the lists getBooks may return
GetBooksResult(input) ==
    {Page(rows, input.limit, input.offset) :
        rows \in NewestFirst({ReturnedBook(b) : b \in {c \in 1..Len(books) :
                                                  GetBooksWhere(books[c], input)}})}

\* the lists searchBooks may return when its query does not fail
SearchBooksResult(input) ==
    {Page(rows, input.limit, input.offset) :
        rows \in NewestFirst({ReturnedBook(b) : b \in {c \in 1..Len(books) :
                                                  SearchBooksWhere(books[c], input)}})}

\* the inputs searchBooksInputSchema yields
SearchInputs ==
    [query : {{}, {<<>>}, {<<"a">>}},
     category : {{}, {<<"f">>}, {<<"%">>}, {<<"\\">>}},
     author : {{}, {<<"W">>}},
     min_price : {{}, {1000}},
     max_price : {{}, {1000}},
     limit : LimitInputs,
     offset : OffsetInputs]

\* input: SearchBooksInput = { limit: 20, offset: 0 }
DefaultSearchInput ==
    [query |-> {}, category |-> {}, author |-> {}, min_price |-> {},
     max_price |-> {}, limit |-> DefaultLimit, offset |-> 0]

GetBooks(p, input) ==
    /\ pc[p] = "idle"
    /\ \E value \in GetBooksResult(input) :
         Finish(p, [op |-> "getBooks", outcome |-> "ok", value |-> value])
    /\ UNCHANGED <<books, cartItems, cartSeq, orders, orderSeq, orderItems, reviews, reviewSeq, users, userSeq>>

\* catch (error) { console.error(...); throw error; }
SearchBooks(p, input) ==
    /\ pc[p] = "idle"
    /\ IF SearchBooksRaises(input)
       THEN Finish(p, Err("searchBooks", "QueryError"))
       ELSE \E value \in SearchBooksResult(input) :
              Finish(p, [op |-> "searchBooks", outcome |-> "ok", value |-> value])
    /\ UNCHANGED <<books, cartItems, cartSeq, orders, orderSeq, orderItems, reviews, reviewSeq, users, userSeq>>

\* getBooks: publicProcedure.query(() => getBooks()): the route takes no
\* input and calls the handler with its default
RouterGetBooks(p) == GetBooks(p, DefaultSearchInput)

\* searchBooks: publicProcedure.input(searchBooksInputSchema).query(...)
RouterSearchBooks(p, input) == SearchBooks(p, input)

\* ------------------------------------------------------------------ Next
\* catalog requests served by the slots P: at most nb books, prices from prices
BookCalls(P, nb, prices) ==
    \/ \E p \in P, price \in prices, stock \in StockInputs :
         Len(books) < nb /\ CreateBook(p, BookInput(price, stock))
    \/ \E p \in P, id \in 1..nb, patch \in BookPatches(prices) : UpdateBook(p, id, patch)
    \/ \E p \in P : UbUpdate(p)

\* cart requests of the users U served by the slots P
CartCalls(P, U, nb) ==
    \/ \E p \in P, u \in U, b \in 1..nb, q \in QtyInputs : AddToCartCall(p, u, b, q)
    \/ \E p \in P : AtcSelectExisting(p)
    \/ \E p \in P : AtcUpdate(p)
    \/ \E p \in P : AtcInsert(p)
    \/ \E p \in P, u \in U, id \in 1..MaxCartRows, q \in QtyInputs : UciCall(p, u, id, q)
    \/ \E p \in P : UciSelectBook(p)
    \/ \E p \in P : UciUpdate(p)
    \/ \E p \in P, u \in U, id \in 1..MaxCartRows : RemoveFromCart(p, u, id)

\* createOrder requests of the users U served by the slots P
OrderCalls(P, U) ==
    \/ \E p \in P, u \in U : CreateOrderCall(p, u)
    \/ \E p \in P : CoSelectCart(p)
    \/ \E p \in P : CoInsertOrder(p)
    \/ \E p \in P : CoInsertItems(p)
    \/ \E p \in P : CoUpdateStock(p)
    \/ \E p \in P : CoClearCart(p)
    \/ \E p \in P : CoCommit(p)
    \/ \E p \in P : CoFail(p)

\* review requests of the users U served by the slots P
ReviewCalls(P, U, nb) ==
    \/ \E p \in P, u \in U, b \in 1..nb, rating \in RatingInputs, comment \in CommentInputs :
         CreateReviewCall(p, u, b, rating, comment)
    \/ \E p \in P : CrSelectPurchase(p)
    \/ \E p \in P : CrSelectExisting(p)
    \/ \E p \in P : CrInsert(p)
    \/ \E p \in P, u \in U, id \in 1..MaxReviews, patch \in ReviewPatches :
         UpdateReviewCall(p, u, id, patch)
    \/ \E p \in P : UrUpdate(p)
    \/ \E p \in P, u \in U, id \in 1..MaxReviews : DeleteReview(p, u, id)

\* orders placed concurrently with each other and with the catalog and cart
\* requests the first slot serves, over a catalog of one book
Next ==
    \/ BookCalls({1}, ConcBooks, {1996})
    \/ CartCalls({1}, UserIds, ConcBooks)
    \/ OrderCalls(Procs, UserIds)

Spec == Init /\ [][Next]_vars

\* the requests of one user served one after another, over the whole catalog
SeqNext ==
    \/ BookCalls({1}, MaxBooks, PriceInputs)
    \/ CartCalls({1}, {1}, MaxBooks)
    \/ OrderCalls({1}, {1})

SeqSpec == Init /\ [][SeqNext]_vars

\* cart requests of two users served concurrently by two slots, over a
\* catalog of one book whose stock is not patched; the first slot also
\* places the orders
CartNext ==
    \/ \E price \in {1996}, stock \in StockInputs :
         Len(books) < ConcBooks /\ CreateBook(1, BookInput(price, stock))
    \/ CartCalls(Procs, UserIds, ConcBooks)
    \/ OrderCalls({1}, UserIds)

CartSpec == Init /\ [][CartNext]_vars

\* review requests of one user served concurrently by two slots; the first
\* slot also creates the book and serves the user's addToCart and createOrder
\* requests, one after another
ReviewNext ==
    \/ \E price \in {1996}, stock \in StockInputs :
         Len(books) < ConcBooks /\ CreateBook(1, BookInput(price, stock))
    \/ \E q \in QtyInputs : AddToCartCall(1, 1, 1, q)
    \/ AtcSelectExisting(1)
    \/ AtcUpdate(1)
    \/ AtcInsert(1)
    \/ OrderCalls({1}, {1})
    \/ ReviewCalls(Procs, {1}, ConcBooks)

ReviewSpec == Init /\ [][ReviewNext]_vars

\* the catalog, cart, order and review requests of two users, served one
\* after another, over a catalog of one book
OwnerNext ==
    \/ BookCalls({1}, ConcBooks, {1996})
    \/ CartCalls({1}, UserIds, ConcBooks)
    \/ OrderCalls({1}, UserIds)
    \/ ReviewCalls({1}, UserIds, ConcBooks)

OwnerSpec == Init /\ [][OwnerNext]_vars

\* the orders of two users placed concurrently by two slots, over a catalog
\* of one book that is never patched; the first slot also creates the book
\* and serves the addToCart requests.  No request removes a cart row here
\* but a committing createOrder.
RaceNext ==
    \/ \E price \in {1996}, stock \in StockInputs :
         Len(books) < ConcBooks /\ CreateBook(1, BookInput(price, stock))
    \/ \E u \in UserIds, q \in QtyInputs : AddToCartCall(1, u, 1, q)
    \/ AtcSelectExisting(1)
    \/ AtcUpdate(1)
    \/ AtcInsert(1)
    \/ OrderCalls(Procs, UserIds)

RaceSpec == Init /\ [][RaceNext]_vars

\* registrations served concurrently by two slots, and the logins the
\* first slot serves
UserNext ==
    \/ \E p \in Procs, email \in EmailInputs, password \in PasswordInputs :
         CreateUserCall(p, email, password)
    \/ \E p \in Procs : CuInsert(p)
    \/ \E email \in EmailInputs, password \in PasswordInputs :
         LoginUser(1, email, password)

UserSpec == Init /\ [][UserNext]_vars

\* the orders of two users placed concurrently by two slots, over a catalog
\* of one book; the first slot also creates the book and serves the
\* addToCart requests and the reads of the orders
ReadNext ==
    \/ \E price \in {1996}, stock \in StockInputs :
         Len(books) < ConcBooks /\ CreateBook(1, BookInput(price, stock))
    \/ \E u \in UserIds, q \in QtyInputs : AddToCartCall(1, u, 1, q)
    \/ AtcSelectExisting(1)
    \/ AtcUpdate(1)
    \/ AtcInsert(1)
    \/ OrderCalls(Procs, UserIds)
    \/ \E u \in UserIds : GetOrders(1, u)
    \/ \E u \in UserIds, id \in 1..MaxOrders : GetOrderById(1, u, id)

ReadSpec == Init /\ [][ReadNext]_vars

\* the createBook inputs of the catalog requests
CatalogInputs ==
    {[BookInput(price, 1) EXCEPT !.title = title, !.description = description,
                                 !.category = category] :
        price \in PriceInputs, title \in TitleInputs,
        description \in DescriptionInputs, category \in CategoryInputs}

\* the updateBook patches of the catalog requests
CatalogPatches ==
    {[NoBookPatch EXCEPT !.title = title, !.description = description,
                         !.price = price, !.stock_quantity = stock] :
        title \in {{}, {<<"b">>}},
        description \in {{}} \cup {{d} : d \in DescriptionInputs},
        price \in {{}} \cup {{x} : x \in PriceInputs},
        stock \in {{}} \cup {{x} : x \in StockInputs}}

\* the catalog written through createBook and updateBook
PatchNext ==
    \/ \E input \in CatalogInputs : CreateBook(1, input)
    \/ \E id \in 1..MaxBooks, patch \in CatalogPatches : UpdateBook(1, id, patch)
    \/ UbUpdate(1)

PatchSpec == Init /\ [][PatchNext]_vars

\* the catalog read through getBooks and searchBooks, called directly and
\* through the router
SearchNext ==
    \/ \E input \in CatalogInputs : CreateBook(1, input)
    \/ \E input \in SearchInputs : GetBooks(1, input)
    \/ \E input \in SearchInputs : SearchBooks(1, input)
    \/ RouterGetBooks(1)
    \/ \E input \in SearchInputs : RouterSearchBooks(1, input)

SearchSpec == Init /\ [][SearchNext]_vars

\* ---------------------------------------------------------------- claims
CartOf(u) == {c \in cartItems : c.user_id = u}

ItemsOf(order_id) == {it \in orderItems : it.order_id = order_id}

\* the step in which slot p commits its order and returns it
CommitBy(p) ==
    /\ pc[p] = "co_commit"
    /\ pc'[p] = "idle"
    /\ response'.op = "createOrder"
    /\ response'.outcome = "ok"

\* a step of slot p's transaction
TxStepBy(p) == InTx(p) /\ (pc'[p] # pc[p] \/ local'[p] # local[p])

Succeeded == response.op = "createOrder" /\ response.outcome = "ok"

\* price times quantity, in hundredths, summed over a set of cart rows
RECURSIVE CartValue(_)
CartValue(S) ==
    IF S = {} THEN 0
    ELSE LET c == CHOOSE x \in S : TRUE
         IN books[c.book_id].price * c.quantity + CartValue(S \ {c})

\* the quantity of book b in a set of order items
RECURSIVE QuantityOf(_, _)
QuantityOf(S, b) ==
    IF S = {} THEN 0
    ELSE LET it == CHOOSE x \in S : TRUE
         IN (IF it.book_id = b THEN it.quantity ELSE 0) + QuantityOf(S \ {it}, b)

OwnOrderId(p) == (CHOOSE o \in local[p].txOrder : TRUE).id

\* C1: of two concurrent createOrder calls by different users for the same
\* book, whose stock suffices for either order alone but not for both, at
\* most one commits.  Stated at the commit of the second: no order of
\* another user, inserted after this transaction's own and committed before
\* it, has taken from the same book a quantity which, with this order's,
\* exceeds the stock this transaction read.
C1_AtMostOneSucceeds ==
    [][\A q \in Procs : CommitBy(q) =>
         ~\E o \in orders, it \in orderItems, i \in 1..Len(local[q].snapshot) :
            LET row == local[q].snapshot[i]
            IN /\ it.order_id = o.id
               /\ o.user_id # local[q].user
               /\ o.id > OwnOrderId(q)
               /\ it.book_id = row.book_id
               /\ it.quantity <= row.book_stock
               /\ row.quantity <= row.book_stock
               /\ it.quantity + row.quantity > row.book_stock]_vars

\* C2: a createOrder call made while a cart item of the caller has a
\* quantity above its book's stock fails with the insufficient-stock error
\* and writes nothing: books, cart items, orders and order items stay as
\* they were.
C2_InsufficientStockNoWrites ==
    [][\A p \in Procs :
         (/\ CoSelectCart(p)
          /\ \E c \in CartOf(local[p].user) :
                c.quantity > books[c.book_id].stock_quantity)
         => /\ response' = Err("createOrder", "InsufficientStock")
            /\ pc'[p] = "idle"
            /\ UNCHANGED <<books, cartItems, orders, orderItems>>]_vars

\* a call has just failed on one cart row of two, the other being in stock
C2_Witness ==
    /\ response = Err("createOrder", "InsufficientStock")
    /\ \E c, d \in cartItems :
          /\ c.user_id = d.user_id
          /\ c.quantity > books[c.book_id].stock_quantity
          /\ d.quantity <= books[d.book_id].stock_quantity

\* C3: a store failure at any step of the createOrder transaction rolls the
\* whole of it back, and nothing of it is visible before the commit: every
\* step of the transaction but its commit, the failing one included, leaves
\* books, cart items, orders and order items as they were.
C3_FailureRollsBack ==
    [][\A p \in Procs : (TxStepBy(p) /\ ~CommitBy(p)) =>
         UNCHANGED <<books, cartItems, orders, orderItems>>]_vars

\* a transaction has just failed after the first of its two stock updates,
\* and there is no order and the cart is still there
C3_Witness ==
    /\ response.op = "createOrder"
    /\ response.outcome = "PersistenceFailure"
    /\ response.at = "co_update_stock"
    /\ response.stockUpdates = 1
    /\ orders = {}
    /\ orderItems = {}
    /\ Cardinality(cartItems) = 2

\* C4: a createOrder call by a user without cart items fails with the
\* empty-cart error and writes nothing.
C4_EmptyCartNoWrites ==
    [][\A p \in Procs :
         (CoSelectCart(p) /\ CartOf(local[p].user) = {})
         => /\ response' = Err("createOrder", "EmptyCart")
            /\ pc'[p] = "idle"
            /\ UNCHANGED <<books, cartItems, orders, orderItems>>]_vars

\* the call has just failed for a user without items while another user has some
C4_Witness ==
    /\ response = Err("createOrder", "EmptyCart")
    /\ cartItems # {}
    /\ \E u \in UserIds : CartOf(u) = {}

\* C5: the order a createOrder commits has as total_amount the sum, over the
\* caller's cart items, of the book's price times the item's quantity, and
\* the call returns that order with the total as a number.
C5_TotalAmount ==
    [][\A p \in Procs : CommitBy(p) =>
         LET expected == CartValue(CartOf(local[p].user))
             created == orders' \ orders
         IN /\ Cardinality(created) = 1
            /\ \A o \in created :
                 /\ o.user_id = local[p].user
                 /\ o.total_amount = expected
                 /\ response'.order.id = o.id
                 /\ response'.order.user_id = o.user_id
                 /\ response'.order.total_amount = 10 * expected]_vars

\* an order of two items, two copies at 2.00 and one at 2.00, returned with
\* the total 6.00
C5_Witness ==
    /\ Succeeded
    /\ response.order.total_amount = 6000
    /\ \E it, jt \in ItemsOf(response.order.id) :
          /\ it.book_id # jt.book_id
          /\ it.quantity = 2 /\ it.price_at_time = 200
          /\ jt.quantity = 1 /\ jt.price_at_time = 200

\* C6: a createOrder that commits creates exactly one order item per cart
\* item of the caller and no other: each belongs to the new order and has the
\* cart item's book and quantity and, as price_at_time, the book's price.
C6_OrderItems ==
    [][\A p \in Procs : CommitBy(p) =>
         LET cart == CartOf(local[p].user)
             created == orderItems' \ orderItems
         IN /\ Cardinality(created) = Cardinality(cart)
            /\ \A it \in created : it.order_id = response'.order.id
            /\ \A c \in cart :
                 Cardinality({it \in created :
                                /\ it.book_id = c.book_id
                                /\ it.quantity = c.quantity
                                /\ it.price_at_time = books[c.book_id].price}) = 1]_vars

\* an order has just been committed with two items of different prices
C6_Witness ==
    /\ Succeeded
    /\ Cardinality(ItemsOf(response.order.id)) = 2
    /\ \E it, jt \in ItemsOf(response.order.id) :
          /\ it.price_at_time # jt.price_at_time
          /\ it.quantity # jt.quantity

\* C7: a createOrder that commits lowers the stock of every book by the
\* quantity it ordered of that book, and so leaves the stock of a book that
\* is not in the order as it was.
C7_StockReducedByQuantity ==
    [][\A p \in Procs : CommitBy(p) =>
         \A b \in 1..Len(books) :
            books'[b].stock_quantity =
               books[b].stock_quantity - QuantityOf(orderItems' \ orderItems, b)]_vars

\* C8: a createOrder by user U that commits deletes all of U's cart items,
\* U's cart is empty afterwards, and leaves the cart items of every other
\* user as they were.
C8_CartCleared ==
    [][\A p \in Procs : CommitBy(p) =>
         cartItems' = {c \in cartItems : c.user_id # local[p].user}]_vars

\* C8, the cart as it is when it is cleared: the DELETE of a createOrder by
\* user U removes every cart item U has when it runs, and the commit removes
\* these rows and no other: not a row of another user, and not a row U has
\* added since the DELETE.
C8_CartClearedAtDelete ==
    [][\A p \in Procs :
         /\ (pc[p] = "co_clear_cart" /\ pc'[p] = "co_commit") =>
               local'[p].txDeleted = {c.id : c \in CartOf(local[p].user)}
         /\ CommitBy(p) =>
               /\ cartItems' \subseteq cartItems
               /\ \A c \in cartItems :
                     c \in cartItems' <=> c.id \notin local[p].txDeleted]_vars

\* an order has just been committed and its user's cart holds a row, added
\* between the DELETE and the commit
C8_Witness ==
    /\ Succeeded
    /\ CartOf(response.order.user_id) # {}
    /\ cartSeq = MaxCartRows

\* C9: the total_amount of an order and the price_at_time of an order item
\* never change once they are there, whatever is done afterwards.
C9_FrozenPrices ==
    [][/\ \A o \in orders : \E n \in orders' :
             n.id = o.id /\ n.total_amount = o.total_amount
       /\ \A it \in orderItems : \E n \in orderItems' :
             /\ n.order_id = it.order_id
             /\ n.line = it.line
             /\ n.price_at_time = it.price_at_time]_vars

\* an updateBook has just left a book at a price other than the one an order
\* item of that book keeps
C9_Witness ==
    /\ response.op = "updateBook"
    /\ response.outcome = "ok"
    /\ \E row \in response.row, it \in orderItems :
          /\ it.book_id = row.id
          /\ it.price_at_time # books[it.book_id].price

OrdersWellFormed ==
    \A o \in orders : o.status = "pending" /\ ItemsOf(o.id) # {}

\* C10: orders and order items are never deleted or changed, every order
\* there is has at least one order item, and every order is pending.
C10_OrdersOnlyGrow ==
    [][/\ orders \subseteq orders'
       /\ orderItems \subseteq orderItems'
       /\ OrdersWellFormed']_vars

\* a transaction has just failed after inserting its order, and the orders
\* committed before are still there
C10_Witness ==
    /\ response.op = "createOrder"
    /\ response.outcome = "PersistenceFailure"
    /\ response.at = "co_insert_items"
    /\ orders # {}
    /\ OrdersWellFormed

\* the rows of the cart of user u for book b, and their total quantity
PairRows(S, u, b) == {c \in S : c.user_id = u /\ c.book_id = b}

RECURSIVE RowsQuantity(_)
RowsQuantity(S) ==
    IF S = {} THEN 0
    ELSE LET c == CHOOSE x \in S : TRUE
         IN c.quantity + RowsQuantity(S \ {c})

\* the step in which slot p's addToCart writes its row and returns it
AtcDoneBy(p) == pc[p] \in {"atc_update", "atc_insert"} /\ pc'[p] = "idle"

\* C11: addToCart calls of one user for one book, one after another: a call
\* that keeps the sum of the requested quantities within the stock leaves
\* exactly one row for the pair, its quantity the sum so far (the quantity
\* before the call plus the requested one); a call that would take the sum
\* above the stock fails with the insufficient-stock error and leaves the
\* cart as it was.
C11_AddToCartSums ==
    [][\A p \in Procs :
         /\ AtcDoneBy(p) =>
               LET l == local[p]
                   before == PairRows(cartItems, l.user, l.book_id)
                   after == PairRows(cartItems', l.user, l.book_id)
               IN /\ Cardinality(after) = 1
                  /\ RowsQuantity(after) = RowsQuantity(before) + l.quantity
                  /\ RowsQuantity(after) <= books[l.book_id].stock_quantity
                  /\ response'.row = after
         /\ \A u \in UserIds, b \in 1..MaxBooks, q \in QtyInputs :
               (AddToCartCall(p, u, b, q) /\ BookExists(b)) =>
                  IF RowsQuantity(PairRows(cartItems, u, b)) + q
                        > books[b].stock_quantity
                  THEN /\ pc'[p] = "idle" \/ pc'[p] = "atc_select_existing"
                       /\ pc'[p] = "idle" =>
                             response' = Err("addToCart", "InsufficientStock")
                  ELSE pc'[p] = "atc_select_existing"
         /\ pc[p] = "atc_select_existing" =>
               LET l == local[p]
               IN IF RowsQuantity(PairRows(cartItems, l.user, l.book_id)) + l.quantity
                        > books[l.book_id].stock_quantity
                  THEN /\ pc'[p] = "idle"
                       /\ response' = Err("addToCart", "InsufficientStock")
                       /\ cartItems' = cartItems
                  ELSE pc'[p] \in {"atc_update", "atc_insert"}]_vars

\* a call asking for two more copies of a book in stock twice has just
\* failed on the sum, three, and the row of one copy is still there
C11_Witness ==
    /\ response = Err("addToCart", "InsufficientStock")
    /\ Len(books) = 1
    /\ books[1].stock_quantity = 2
    /\ \E c \in cartItems : c.book_id = 1 /\ c.quantity = 1

\* C12: the cart_items table never holds two rows for the same user and
\* book, whatever the interleaving of the cart and order requests.
C12_OneRowPerPair ==
    \A c, d \in cartItems :
       (c.user_id = d.user_id /\ c.book_id = d.book_id) => c.id = d.id

\* C13: in every reachable state the quantity of every cart item is at most
\* the stock_quantity of its book.
C13_CartWithinStock ==
    \A c \in cartItems :
       BookExists(c.book_id) => c.quantity <= books[c.book_id].stock_quantity

\* C14: updateCartItem fails with the not-found error unless the cart item
\* exists and belongs to the caller, and with the insufficient-stock error
\* when the quantity asked for exceeds the book's stock, leaving the cart as
\* it was; when it succeeds the item's quantity is exactly the quantity
\* asked for, within the stock, and no other row has changed.
C14_UpdateCartItem ==
    [][\A p \in Procs :
         /\ \A u \in UserIds, id \in 1..MaxCartRows, q \in QtyInputs :
               UciCall(p, u, id, q) =>
                  IF \E c \in cartItems : c.id = id /\ c.user_id = u
                  THEN pc'[p] = "uci_select_book" /\ cartItems' = cartItems
                  ELSE /\ pc'[p] = "idle"
                       /\ response' = Err("updateCartItem", "NotFound")
                       /\ cartItems' = cartItems
         /\ (pc[p] = "uci_select_book" /\ pc'[p] # pc[p]) =>
               LET l == local[p]
               IN /\ cartItems' = cartItems
                  /\ IF l.quantity > books[l.book_id].stock_quantity
                     THEN /\ pc'[p] = "idle"
                          /\ response' = Err("updateCartItem", "InsufficientStock")
                     ELSE pc'[p] = "uci_update"
         /\ (pc[p] = "uci_update" /\ pc'[p] # pc[p]) =>
               LET l == local[p]
               IN /\ \E c \in cartItems :
                        /\ c.id = l.cart_item_id
                        /\ c.user_id = l.user
                        /\ l.quantity <= books[c.book_id].stock_quantity
                        /\ cartItems' = (cartItems \ {c}) \cup
                                           {[c EXCEPT !.quantity = l.quantity]}
                        /\ response'.row = {[c EXCEPT !.quantity = l.quantity]}
                  /\ response'.outcome = "ok"]_vars

\* an updateCartItem has just set a row to two copies, all the stock of its
\* book, while the other user has a row of one copy
C14_Witness ==
    /\ response.op = "updateCartItem"
    /\ response.outcome = "ok"
    /\ \E c \in response.row, d \in cartItems :
          /\ c.quantity = 2
          /\ books[c.book_id].stock_quantity = 2
          /\ d.user_id # c.user_id
          /\ d.quantity = 1

\* what removeFromCart and deleteReview return
Deleted(op, value) == [op |-> op, outcome |-> "ok", value |-> value]

\* C15: removeFromCart and deleteReview are idempotent: called on a row of
\* the caller they return true and the row is gone; called on an id that
\* is not (or no longer) a row of the caller they return false and change
\* nothing; in both cases the row is absent after the call, so that the
\* second of two calls returns false.
C15_DeleteIdempotent ==
    [][\A p \in Procs, u \in UserIds :
         /\ \A id \in 1..MaxCartRows :
               RemoveFromCart(p, u, id) =>
                  /\ ~\E c \in cartItems' : c.id = id /\ c.user_id = u
                  /\ cartSeq' = cartSeq
                  /\ IF \E c \in cartItems : c.id = id /\ c.user_id = u
                     THEN /\ response' = Deleted("removeFromCart", TRUE)
                          /\ cartItems' = {c \in cartItems : c.id # id}
                     ELSE /\ response' = Deleted("removeFromCart", FALSE)
                          /\ cartItems' = cartItems
         /\ \A id \in 1..MaxReviews :
               DeleteReview(p, u, id) =>
                  /\ ~\E r \in reviews' : r.id = id /\ r.user_id = u
                  /\ reviewSeq' = reviewSeq
                  /\ IF \E r \in reviews : r.id = id /\ r.user_id = u
                     THEN /\ response' = Deleted("deleteReview", TRUE)
                          /\ reviews' = {r \in reviews : r.id # id}
                     ELSE /\ response' = Deleted("deleteReview", FALSE)
                          /\ reviews' = reviews]_vars

\* a deleteReview has just returned false for the only review ever made,
\* which an earlier call deleted
C15_Witness ==
    /\ response = Deleted("deleteReview", FALSE)
    /\ reviewSeq = 1
    /\ reviews = {}

\* user u owns no cart item (no review) of that id: there is none, or it is
\* another user's
NotOwnCartItem(u, id) == ~\E c \in cartItems : c.id = id /\ c.user_id = u
NotOwnReview(u, id) == ~\E r \in reviews : r.id = id /\ r.user_id = u

\* the patch that supplies no field; a call that finds no review of the
\* caller does the same whatever its patch
NoPatch == [rating |-> {}, comment |-> {}]

\* C16: a mutation aimed at a row of another user changes nothing and
\* answers as it does for a row that does not exist: removeFromCart and
\* deleteReview return false, updateCartItem and updateReview fail with the
\* not-found error, the same answer in both cases.
C16_NonOwnerSeesNotFound ==
    [][/\ response'.op = "removeFromCart" =>
            \A p \in Procs, u \in UserIds, id \in 1..MaxCartRows :
               (NotOwnCartItem(u, id) /\ RemoveFromCart(p, u, id)) =>
                  /\ response' = Deleted("removeFromCart", FALSE)
                  /\ UNCHANGED <<books, cartItems, orders, orderItems, reviews>>
       /\ response'.op = "updateCartItem" =>
            \A p \in Procs, u \in UserIds, id \in 1..MaxCartRows, q \in QtyInputs :
               (NotOwnCartItem(u, id) /\ UciCall(p, u, id, q)) =>
                  /\ response' = Err("updateCartItem", "NotFound")
                  /\ UNCHANGED <<books, cartItems, orders, orderItems, reviews>>
       /\ response'.op = "deleteReview" =>
            \A p \in Procs, u \in UserIds, id \in 1..MaxReviews :
               (NotOwnReview(u, id) /\ DeleteReview(p, u, id)) =>
                  /\ response' = Deleted("deleteReview", FALSE)
                  /\ UNCHANGED <<books, cartItems, orders, orderItems, reviews>>
       /\ response'.op = "updateReview" =>
            \A p \in Procs, u \in UserIds, id \in 1..MaxReviews :
               (NotOwnReview(u, id) /\ UpdateReviewCall(p, u, id, NoPatch)) =>
                  /\ response' = Err("updateReview", "NotFound")
                  /\ UNCHANGED <<books, cartItems, orders, orderItems, reviews>>
       /\ \A p \in Procs :
            (pc[p] = "idle" /\ pc'[p] \in {"uci_select_book", "ur_update"}) =>
               IF pc'[p] = "uci_select_book"
               THEN ~NotOwnCartItem(local'[p].user, local'[p].cart_item_id)
               ELSE ~NotOwnReview(local'[p].user, local'[p].review_id)]_vars

\* an updateReview has just failed with the not-found error while every
\* review id it can name is a review: the caller was not its owner
C16_Witness ==
    /\ response = Err("updateReview", "NotFound")
    /\ reviewSeq = MaxReviews
    /\ \A id \in 1..MaxReviews : \E r \in reviews : r.id = id

\* user u has an order with an order item for book b
Purchased(u, b) ==
    \E o \in orders, it \in orderItems :
       o.user_id = u /\ it.order_id = o.id /\ it.book_id = b

Reviewed(u, b) == \E r \in reviews : r.user_id = u /\ r.book_id = b

\* C17: a createReview for an existing book the caller has not reviewed
\* succeeds if and only if the caller has an order with an order item for
\* the book: without one it fails and creates no review, with one it goes
\* on to insert exactly one review, of that user for that book.
C17_ReviewNeedsPurchase ==
    [][\A p \in Procs :
         /\ (pc[p] = "cr_select_purchase" /\ pc'[p] # pc[p]) =>
               /\ reviews' = reviews
               /\ IF Purchased(local[p].user, local[p].book_id)
                  THEN pc'[p] = "cr_select_existing"
                  ELSE /\ pc'[p] = "idle"
                       /\ response' = Err("createReview", "Forbidden")
         /\ (pc[p] = "cr_select_existing" /\ pc'[p] # pc[p]) =>
               /\ reviews' = reviews
               /\ Purchased(local[p].user, local[p].book_id)
               /\ ~Reviewed(local[p].user, local[p].book_id) => pc'[p] = "cr_insert"
         /\ (pc[p] = "cr_insert" /\ pc'[p] # pc[p]) =>
               /\ Purchased(local[p].user, local[p].book_id)
               /\ response'.op = "createReview"
               /\ response'.outcome = "ok"
               /\ reviews' = reviews \cup response'.row
               /\ Cardinality(reviews') = Cardinality(reviews) + 1
               /\ \A r \in response'.row :
                     /\ r.user_id = local[p].user
                     /\ r.book_id = local[p].book_id
                     /\ r.rating = local[p].rating
                     /\ r.comment = local[p].comment
         /\ reviews' \subseteq reviews
               \/ \E q \in Procs : pc[q] \in {"cr_insert", "ur_update"}]_vars

\* a createReview has just failed for want of a purchase while another user,
\* who has bought the book, has a review of it
C17_Witness ==
    /\ response = Err("createReview", "Forbidden")
    /\ orders # {}
    /\ reviews # {}

\* C18: there is never more than one review of a user for a book, whatever
\* the interleaving of the review requests, and a createReview by a user
\* who has a review of the book fails with the conflict error.
C18_OneReviewPerPair ==
    \A r, t \in reviews :
       (r.user_id = t.user_id /\ r.book_id = t.book_id) => r.id = t.id

\* C19: in every reachable state every book has a stock_quantity of at least
\* zero and a price above zero.
C19_BooksValid ==
    \A b \in 1..Len(books) : books[b].stock_quantity >= 0 /\ books[b].price > 0

\* C20: the stock_quantity of an existing book changes only in the step
\* that commits a createOrder transaction; no other operation changes it.
C20_StockOnlyByOrders ==
    [][(\E b \in 1..Len(books) :
          books'[b].stock_quantity # books[b].stock_quantity)
       => \E p \in Procs : CommitBy(p)]_vars

\* C27: a cart is converted into at most one order.  Under RaceSpec a cart
\* row is removed only by a createOrder that commits, so the claim is: when
\* a createOrder commits, every cart row of its snapshot is still in the
\* cart, none has been turned into an order by another createOrder of the
\* same user in the meantime.
C27_OneOrderPerCart ==
    [][\A p \in Procs :
         CommitBy(p) =>
           \A i \in 1..Len(local[p].snapshot) :
              \E c \in cartItems : c.id = local[p].snapshot[i].cart_item_id]_vars

\* C28: inventory is conserved.  No book is patched under RaceSpec, and a
\* book is created with no order item, so the claim is that no step changes,
\* for any book, its stock plus the quantity its order items sell.
C28_InventoryConserved ==
    [][\A b \in 1..Len(books) :
         books'[b].stock_quantity + QuantityOf(orderItems', b)
           = books[b].stock_quantity + QuantityOf(orderItems, b)]_vars

\* C29: every cart row the cart-clearing step of a createOrder deletes has
\* an order item in the new order with the row's book and the quantity the
\* row has when it is deleted.
C29_DeletedRowsAreOrdered ==
    [][\A p \in Procs :
         CommitBy(p) =>
           \A c \in cartItems \ cartItems' :
              \E it \in orderItems' :
                 /\ it.order_id = response'.order.id
                 /\ it.book_id = c.book_id
                 /\ it.quantity = c.quantity]_vars

\* C21: in every state no two users have the same email; a createUser call
\* whose email belongs to a user, when it reads the users or when it inserts
\* its row (a concurrent call has inserted one in between), is rejected and
\* leaves the users as they are.
C21_UniqueEmail ==
    /\ [](\A u1, u2 \in users : u1.email = u2.email => u1 = u2)
    /\ [][/\ \A p \in Procs, email \in EmailInputs, password \in PasswordInputs :
               CreateUserCall(p, email, password) /\ (\E u \in users : u.email = email)
                 => response' = Err("createUser", "Conflict") /\ users' = users
          /\ \A p \in Procs :
               /\ pc[p] = "cu_insert"
               /\ pc'[p] = "idle"
               /\ \E u \in users : u.email = local[p].email
               => /\ response'.op = "createUser"
                  /\ response'.outcome # "ok"
                  /\ users' = users]_vars

\* a createUser call has been rejected at its INSERT: its email was free when
\* it read the users and taken when it inserted its row
C21_Witness ==
    /\ response = Err("createUser", "UniqueViolation")
    /\ Cardinality(users) = 1
    /\ userSeq = 2

\* C22: a loginUser call that fails returns the same error, kind and
\* message, whether no user has the email or a user has it and the password
\* check fails.
C22_LoginFailuresAlike ==
    [][\A email \in EmailInputs, password \in PasswordInputs :
         LoginUser(1, email, password) /\ response'.outcome # "ok"
           => response' = UnknownEmail /\ response' = WrongPassword]_vars

\* a login has failed while every email is registered: the password check
\* failed
C22_Witness ==
    /\ response = WrongPassword
    /\ \A email \in EmailInputs : \E u \in users : u.email = email

\* C23: for a user registered through createUser with email e and password
\* p, loginUser(e, p) returns the user and loginUser(e, p') with p' # p
\* fails.
C23_LoginVerifiesPassword ==
    [][\A email \in EmailInputs, password \in PasswordInputs :
         LoginUser(1, email, password) =>
           \A u \in users :
              u.email = email =>
                IF u.password_hash.password = password
                THEN response' = [op |-> "loginUser", outcome |-> "ok", row |-> {u}]
                ELSE response'.outcome = "Error"]_vars

\* C24: updateBook on an existing book leaves every column the input
\* supplies at the supplied value (the price read back as a number) and
\* every other column, and every other book, as it was; on an id that does
\* not exist it fails as not found and changes no book.
C24_PartialPatch ==
    [][/\ (pc[1] = "idle" /\ response'.op = "updateBook") =>
            \A id \in 1..MaxBooks, patch \in CatalogPatches :
               UpdateBook(1, id, patch) =>
                  /\ ~BookExists(id)
                  /\ response' = Err("updateBook", "NotFound")
                  /\ books' = books
       /\ (pc[1] = "idle" /\ pc'[1] = "ub_update") =>
            BookExists(local'[1].id) /\ books' = books
       /\ UbUpdate(1) =>
            LET id == local[1].id
                patch == local[1].patch
            IN /\ \A column \in DOMAIN patch :
                    IF patch[column] = {}
                    THEN books'[id][column] = books[id][column]
                    ELSE IF column = "price"
                    THEN ParseFloat(books'[id].price) = ValueOf(patch.price)
                    ELSE books'[id][column] = ValueOf(patch[column])
               /\ \A b \in 1..Len(books) : b # id => books'[b] = books[b]
               /\ Len(books') = Len(books)
               /\ response'.outcome = "ok"
               /\ response'.row = {BookResult(id, books'[id])}]_vars

\* C25: getOrders(u) returns exactly the orders whose user_id is u, each
\* once; getOrderById(u, id) returns the order with that id when it belongs
\* to u and null otherwise, for an order of another user as for an id that
\* no order has.
C25_OrderReadsScoped ==
    [][/\ \A u \in UserIds :
            GetOrders(1, u) =>
              /\ Range(response'.value) =
                    {ReturnedOrder(o) : o \in {x \in orders : x.user_id = u}}
              /\ Len(response'.value) = Cardinality({x \in orders : x.user_id = u})
       /\ \A u \in UserIds, id \in 1..MaxOrders :
            GetOrderById(1, u, id) =>
              IF \E o \in orders : o.id = id /\ o.user_id = u
              THEN response'.value =
                      {ReturnedOrder(o) : o \in {x \in orders : x.id = id}}
              ELSE response'.value = Null]_vars

\* every order id asked for exists, the two orders belong to different
\* users, and a getOrderById call has returned null: it asked for the order
\* of the other user
C25_Witness ==
    /\ response = [op |-> "getOrderById", outcome |-> "ok", value |-> Null]
    /\ \A id \in 1..MaxOrders : \E o \in orders : o.id = id
    /\ \E o1, o2 \in orders : o1.user_id # o2.user_id

\* the members of the list s that are in the list t, in the order of s
RECURSIVE InBoth(_, _)
InBoth(s, t) ==
    IF s = <<>> THEN <<>>
    ELSE (IF Head(s) \in Range(t) THEN <<Head(s)>> ELSE <<>>) \o InBoth(Tail(s), t)

CategoryOnly(input) == [input EXCEPT !.min_price = {}, !.max_price = {}]

PriceRangeOnly(input) == [input EXCEPT !.category = {}]

\* the input without its page: every matching book is returned
WholeList(input) == [input EXCEPT !.limit = Len(books), !.offset = 0]

\* the lists a searchBooks call may return: none when its query fails
SearchLists(input) ==
    IF SearchBooksRaises(input) THEN {} ELSE SearchBooksResult(input)

\* no list of the three searches is cut by the page
PageHoldsAll(input) ==
    /\ input.offset = 0
    /\ \A rows \in GetBooksResult(WholeList(CategoryOnly(input)))
                   \cup GetBooksResult(WholeList(PriceRangeOnly(input)))
                   \cup SearchBooksResult(WholeList(CategoryOnly(input)))
                   \cup SearchBooksResult(WholeList(PriceRangeOnly(input))) :
          Len(rows) <= input.limit

\* C26: for every catalog and every input the books returned with
\* the category and the price range together are those returned with the
\* category alone that are also returned with the price range alone, under
\* the same limit and offset.
C26_FiltersIntersect ==
    \A input \in SearchInputs :
       /\ \A both \in SearchLists(input),
             category \in SearchLists(CategoryOnly(input)),
             range \in SearchLists(PriceRangeOnly(input)) :
                both = InBoth(category, range)
       /\ \A both \in GetBooksResult(input),
             category \in GetBooksResult(CategoryOnly(input)),
             range \in GetBooksResult(PriceRangeOnly(input)) :
                both = InBoth(category, range)

\* C26, uncut pages: the same equation for every input whose page cuts none of
\* the two single-filter lists (offset 0, limit at least the number of books
\* either filter matches alone).
C26_FiltersIntersectUncut ==
    \A input \in SearchInputs :
       PageHoldsAll(input) =>
          /\ \A both \in SearchLists(input),
                category \in SearchLists(CategoryOnly(input)),
                range \in SearchLists(PriceRangeOnly(input)) :
                   both = InBoth(category, range)
          /\ \A both \in GetBooksResult(input),
                category \in GetBooksResult(CategoryOnly(input)),
                range \in GetBooksResult(PriceRangeOnly(input)) :
                   both = InBoth(category, range)

\* a search by category and price range has returned one book of a catalog
\* of two, of which the category alone matches both and the price range
\* alone matches one
C26_Witness ==
    /\ response.op = "searchBooks"
    /\ response.outcome = "ok"
    /\ Len(books) = 2
    /\ \E input \in SearchInputs :
          /\ Truthy(input.category)
          /\ input.min_price # {}
          /\ PageHoldsAll(input)
          /\ response.value \in SearchLists(input)
          /\ Len(response.value) = 1
          /\ \E category \in SearchLists(CategoryOnly(input)) : Len(category) = 2
          /\ \E range \in SearchLists(PriceRangeOnly(input)) : Len(range) = 1

\* C30: getBooks and searchBooks return the same list for every catalog and
\* every input, called directly, and the getBooks route returns what the
\* searchBooks route returns for every input.
C30_GetBooksIsSearchBooks ==
    [][/\ \A input \in SearchInputs :
            GetBooks(1, input) => response'.value \in SearchLists(input)
       /\ RouterGetBooks(1) =>
            \A input \in SearchInputs : response'.value \in SearchLists(input)]_vars
====
